---- MODULE Spec2Model ----
(***************************************************************************)
(* A model of the todo CRUD service (handlers createTodo, getTodo,         *)
(* updateTodo, deleteTodo over the table todosTable) and of the part of    *)
(* the client view (App) that calls it.                                    *)
(*                                                                         *)
(* Values.  A JavaScript string is a sequence of characters.  null is the  *)
(* one-element sequence <<"null">>, which is no string because "null" is   *)
(* no character.  An object is a function from its property names; a       *)
(* property that is undefined is a name outside the function's domain, so  *)
(* `x.p !== undefined` is `"p" \in DOMAIN x`.  A Date is its millisecond   *)
(* count, a natural number.                                                *)
(***************************************************************************)
EXTENDS Integers, Sequences, FiniteSets, TLC

\* ---------------------------------------------------------------- bounds
\* The last value of the millisecond clock.
MaxTime == 1
\* The last id the table's serial column hands out, and so the most rows the
\* table ever holds.
MaxId == 2
\* The most entries of the client's local list.
MaxTodos == 2
\* The most updateTodo calls in flight together.
MaxCalls == 2
\* The most statements in a row the store fails.
MaxFailures == 2

\* ---------------------------------------------------------------- values
Null == <<"null">>
EmptyString == <<>>
\* The titles a create is asked for, and those an update sets.
Titles == {EmptyString, <<" ">>, <<"a">>}
UpdateTitles == {EmptyString, <<"a">>}
\* The descriptions a create is asked for, and those a row is given.
Descriptions == {Null, EmptyString, <<"a">>}
RowDescriptions == {Null, <<"a">>}
\* Ids a caller may name: those the serial column can hand out, and 0.
Ids == 0..MaxId

\* x.p !== undefined.
Has(x, p) == p \in DOMAIN x

\* JavaScript truthiness of a string | null | undefined property.
Truthy(x, p) == Has(x, p) /\ x[p] # Null /\ x[p] # EmptyString

\* String.prototype.trim: strips leading and trailing white space.
RECURSIVE TrimStart(_)
TrimStart(s) == IF s # <<>> /\ Head(s) = " " THEN TrimStart(Tail(s)) ELSE s
RECURSIVE TrimEnd(_)
TrimEnd(s) ==
  IF s # <<>> /\ s[Len(s)] = " " THEN TrimEnd(SubSeq(s, 1, Len(s) - 1)) ELSE s
Trim(s) == TrimEnd(TrimStart(s))

\* What an operation answered: nothing (void), null, a record, a boolean, or
\* that it threw.
RetVoid == [kind |-> "void"]
RetNull == [kind |-> "null"]
RetTodo(t) == [kind |-> "todo", todo |-> t]
RetBool(b) == [kind |-> "bool", value |-> b]
RetError == [kind |-> "error"]
RetList(l) == [kind |-> "list", todos |-> l]
\* A call that ends by throwing: the error object thrown.
RetThrow(error) == [kind |-> "throw", error |-> error]

\* ----------------------------------------------------------------- state
VARIABLES
  todosTable,   \* the rows of the table, in insertion order
  nextId,       \* the next value of the id column's serial sequence
  clock,        \* the millisecond clock
  todos,        \* the client's local list (useState<Todo[]>)
  issuedIds,    \* the ids createTodo has returned so far
  last          \* the operation that has just run and not yet been answered:
                \* its name, its input, the table and the local list as they
                \* were before it, its answer, and what createTodo answered if
                \* createTodo was the operation right before it
VARIABLES
  calls,        \* the updateTodo calls running side by side, in the order they
                \* were made: each one's input, the updateData it has built,
                \* and whether its statement has reached the table
  writes        \* the statements of those calls in the order the table ran
                \* them: the call, the row it found, and the call's answer

vars == <<todosTable, nextId, clock, todos, issuedIds, last, calls, writes>>

\* The rows of `table` whose id is `id` (where(eq(todosTable.id, id))).
WhereId(table, id) == SelectSeq(table, LAMBDA r : r.id = id)

\* The set of rows of a table, or of items of a list.
Rows(table) == {table[i] : i \in DOMAIN table}

\* No operation is waiting to be answered.
Idle == [op |-> "idle"]

\* createTodo has just run and nothing has run since.
JustCreated == last # Idle /\ last.op = "createTodo"

Op(name, input, ret) ==
  [op |-> name, input |-> input, table |-> todosTable, todos |-> todos,
   ret |-> ret, created |-> IF JustCreated THEN last.ret ELSE RetVoid]

Init ==
  /\ todosTable = <<>>
  /\ nextId = 1
  /\ clock = 0
  /\ todos = <<>>
  /\ issuedIds = {}
  /\ last = Idle
  /\ calls = <<>>
  /\ writes = <<>>

\* Time passes.
Tick ==
  /\ last = Idle
  /\ clock < MaxTime
  /\ clock' = clock + 1
  /\ UNCHANGED <<todosTable, nextId, todos, issuedIds, last, calls, writes>>

\* The answer reaches the caller; the next operation can start.
Respond ==
  /\ last # Idle
  /\ last' = Idle
  /\ UNCHANGED <<todosTable, nextId, clock, todos, issuedIds, calls, writes>>

\* --------------------------------------------------------------- the table
\* db.insert(todosTable).values({title, description, completed}).returning():
\* the table assigns the id from its serial sequence and both timestamps from
\* the clock.
insertTodo(values, id, now) ==
  [id |-> id, title |-> values.title, description |-> values.description,
   completed |-> values.completed, created_at |-> now, updated_at |-> now]

InsertValues ==
  [title : {t \in Titles : Trim(t) # EmptyString},
   description : RowDescriptions,
   completed : {FALSE}]

InsertTodo ==
  \E values \in InsertValues :
    /\ last = Idle
    /\ nextId <= MaxId
    /\ LET row == insertTodo(values, nextId, clock)
       IN  /\ todosTable' = Append(todosTable, row)
           /\ last' = Op("insertTodo", values, RetTodo(row))
    /\ nextId' = nextId + 1
    /\ UNCHANGED <<clock, todos, issuedIds, calls, writes>>

\* -------------------------------------------------------------- createTodo
\* The objects S, and each of them with the optional property p set to a value
\* of V.
WithOptional(S, p, V) == S \cup {x @@ (p :> v) : x \in S, v \in V}

\* CreateTodoInput: {title: string, description?: string | null}.
CreateTodoInputs == WithOptional([title : Titles], "description", Descriptions)

\* What the create procedure can be sent: an input, or an object with no title.
CreateRequests == CreateTodoInputs \cup {<<>>}

\* The input validation of the create procedure: title is a non-empty string.
createTodoInputSchema(input) == Has(input, "title") /\ Len(input.title) > 0

\* createTodo with an omitted description stored as the empty string.
createTodo_EmptyDescription(input, created, updated) ==
  [id |-> 0,
   title |-> input.title,
   description |-> IF Has(input, "description") THEN input.description
                                                ELSE EmptyString,
   completed |-> FALSE,
   created_at |-> created,
   updated_at |-> updated]

\* createTodo: the record it resolves to.  `created` and `updated` are the two
\* readings of the clock, new Date() and new Date().
createTodo(input, created, updated) ==
  [id |-> 0,
   title |-> input.title,
   description |-> IF Truthy(input, "description") THEN input.description ELSE Null,
   completed |-> FALSE,
   created_at |-> created,
   updated_at |-> updated]

\* The answer of the create procedure to `input`, the clock reading `now` at the
\* first new Date() and `later` at the second.
CreateAnswer(input, now, later) ==
  IF createTodoInputSchema(input)
    THEN RetTodo(createTodo(input, now, later))
    ELSE RetError

\* The clock readings a second new Date() can give after a first one read
\* `now`: the same millisecond or the next.
LaterReadings(now) == {t \in {now, now + 1} : t <= MaxTime}

CreateTodo ==
  \E input \in CreateRequests : \E later \in LaterReadings(clock) :
    LET ret == CreateAnswer(input, clock, later)
    IN  /\ last = Idle
        /\ last' = Op("createTodo", input, ret)
        /\ issuedIds' = IF ret.kind = "todo" THEN issuedIds \cup {ret.todo.id}
                                             ELSE issuedIds
        /\ clock' = IF ret.kind = "todo" THEN later ELSE clock
        /\ UNCHANGED <<todosTable, nextId, todos, calls, writes>>

\* ----------------------------------------------------------------- getTodo
\* getTodo answering the first row of the table, whatever its id.
getTodo_NoWhere(table, input) ==
  IF Len(table) = 0 THEN RetNull ELSE RetTodo(table[1])

getTodo(table, input) ==
  LET result == WhereId(table, input.id)
  IN  IF Len(result) = 0 THEN RetNull ELSE RetTodo(result[1])

\* It runs after any answered operation, or right after createTodo.
GetTodo ==
  \E input \in [id : Ids] :
    /\ last = Idle \/ JustCreated
    /\ last' = Op("getTodo", input, getTodo(todosTable, input))
    /\ UNCHANGED <<todosTable, nextId, clock, todos, issuedIds, calls, writes>>

\* ---------------------------------------------------------------- getTodos
\* `row` put into `sorted`, which is newest first: after every row created at
\* the same time or later, so rows created at the same time keep the order in
\* which they are put in.
RECURSIVE InsertNewestFirst(_, _)
InsertNewestFirst(row, sorted) ==
  IF sorted = <<>> THEN <<row>>
  ELSE IF Head(sorted).created_at >= row.created_at
         THEN <<Head(sorted)>> \o InsertNewestFirst(row, Tail(sorted))
         ELSE <<row>> \o sorted

\* The first n rows of `table`, newest first.
RECURSIVE NewestFirst(_, _)
NewestFirst(table, n) ==
  IF n = 0 THEN <<>>
  ELSE InsertNewestFirst(table[n], NewestFirst(table, n - 1))

\* getTodos answering the rows in the order of the table.
getTodos_Unordered(table) == RetList(table)

\* getTodos answering the newest row only.
getTodos_FirstOnly(table) ==
  LET all == NewestFirst(table, Len(table))
  IN  RetList(IF all = <<>> THEN <<>> ELSE <<Head(all)>>)

\* getTodos: every row of the table, newest first by created_at, rows of the
\* same created_at in insertion order.
getTodos(table) == RetList(NewestFirst(table, Len(table)))

GetTodos ==
  /\ last = Idle
  /\ last' = Op("getTodos", <<>>, getTodos(todosTable))
  /\ UNCHANGED <<todosTable, nextId, clock, todos, issuedIds, calls, writes>>

\* -------------------------------------------------------------- updateTodo
\* UpdateTodoInput: {id: number, title?: string, description?: string | null,
\* completed?: boolean}.
UpdateTodoInputs ==
  WithOptional(
    WithOptional(
      WithOptional([id : Ids], "title", UpdateTitles),
      "description", RowDescriptions),
    "completed", BOOLEAN)

\* updateData with the description tested for truth, not for presence
\* (if (input.description)).
updateData_TruthyDescription(input, now) ==
  LET provided == {f \in {"title", "description", "completed"} :
                     Has(input, f) /\ (f = "description" => input[f] # Null)}
  IN  [f \in provided \cup {"updated_at"} |->
         IF f = "updated_at" THEN now ELSE input[f]]

\* The update object: updated_at always, and each field the input provides.
updateData(input, now) ==
  LET provided == {f \in {"title", "description", "completed"} : Has(input, f)}
  IN  [f \in provided \cup {"updated_at"} |->
         IF f = "updated_at" THEN now ELSE input[f]]

\* .set(data) refreshing created_at along with updated_at.
SetRow_BothTimestamps(row, data) ==
  [f \in DOMAIN row |->
     IF f \in DOMAIN data THEN data[f]
     ELSE IF f = "created_at" THEN data.updated_at ELSE row[f]]

\* .set(data) as a replacement of the row: a completed flag the data does not
\* carry goes back to the column's default.
SetRow_Replace(row, data) ==
  [f \in DOMAIN row |->
     IF f \in DOMAIN data THEN data[f]
     ELSE IF f = "completed" THEN FALSE ELSE row[f]]

\* .set(data) on one row.
SetRow(row, data) ==
  [f \in DOMAIN row |-> IF f \in DOMAIN data THEN data[f] ELSE row[f]]

\* updateTable without its where clause: every row is set.
updateTable_NoWhere(table, data, id) ==
  [i \in DOMAIN table |-> SetRow(table[i], data)]

\* updateTable as an upsert: when no row has the id, a row is added for it.
updateTable_Upsert(table, data, id) ==
  IF WhereId(table, id) = <<>>
    THEN Append(table,
                SetRow(insertTodo([title |-> EmptyString, description |-> Null,
                                   completed |-> FALSE], id, data.updated_at),
                       data))
    ELSE [i \in DOMAIN table |->
            IF table[i].id = id THEN SetRow(table[i], data) ELSE table[i]]

\* db.update(todosTable).set(data).where(eq(todosTable.id, id)): the table after.
updateTable(table, data, id) ==
  [i \in DOMAIN table |->
     IF table[i].id = id THEN SetRow(table[i], data) ELSE table[i]]

\* updateTodo: the table after it, and its answer (.returning() gives the rows
\* the statement changed).
updateTodo(table, input, now) ==
  LET after == updateTable(table, updateData(input, now), input.id)
      result == WhereId(after, input.id)
  IN  [table |-> after,
       ret |-> IF Len(result) = 0 THEN RetNull ELSE RetTodo(result[1])]

UpdateTodo ==
  \E input \in UpdateTodoInputs :
    LET out == updateTodo(todosTable, input, clock)
    IN  /\ last = Idle
        /\ todosTable' = out.table
        /\ last' = Op("updateTodo", input, out.ret)
            /\ UNCHANGED <<nextId, clock, todos, issuedIds, calls, writes>>

\* Two or more updateTodo calls side by side. Each call runs in two steps: it
\* builds its updateData, reading the clock (update_todo.ts:19-39), and later
\* its statement reaches the table and the call answers (update_todo.ts:42-53).
\* The calls are all on the first id the table issues; between them they can
\* carry two different titles, and each can carry a description and the
\* completed flag that differ from the ones a row is inserted with.
ConcurrentInputs ==
  {input \in UpdateTodoInputs :
     /\ input.id = 1
     /\ Has(input, "description") => input.description # Null
     /\ Has(input, "completed") => input.completed}

BeginUpdate ==
  \E input \in ConcurrentInputs :
    /\ last = Idle
    /\ Len(calls) < MaxCalls
    /\ calls' = Append(calls, [input |-> input,
                               data |-> updateData(input, clock),
                               written |-> FALSE])
    /\ UNCHANGED <<todosTable, nextId, clock, todos, issuedIds, last, writes>>

WriteUpdate ==
  \E c \in DOMAIN calls :
    LET id == calls[c].input.id
        after == updateTable(todosTable, calls[c].data, id)
        result == WhereId(after, id)
    IN  /\ ~calls[c].written
        /\ todosTable' = after
        /\ calls' = [calls EXCEPT ![c].written = TRUE]
        /\ writes' = Append(writes,
                            [call |-> c,
                             before |-> WhereId(todosTable, id),
                             ret |-> IF Len(result) = 0 THEN RetNull
                                     ELSE RetTodo(result[1])])
        /\ UNCHANGED <<nextId, clock, todos, issuedIds, last>>

\* -------------------------------------------------------------- deleteTodo
\* deleteTodo answering true whether or not a row matched.
deleteTodo_AlwaysTrue(table, input) ==
  [table |-> SelectSeq(table, LAMBDA r : r.id # input.id),
   ret |-> RetBool(TRUE)]

\* deleteTodo without its where clause: every row is removed.
deleteTodo_NoWhere(table, input) ==
  [table |-> <<>>,
   ret |-> RetBool(Len(WhereId(table, input.id)) > 0)]

\* deleteTodo: the table without the rows of that id, and whether there was one.
deleteTodo(table, input) ==
  [table |-> SelectSeq(table, LAMBDA r : r.id # input.id),
   ret |-> RetBool(Len(WhereId(table, input.id)) > 0)]

DeleteTodo ==
  \E input \in [id : Ids] :
    LET out == deleteTodo(todosTable, input)
    IN  /\ last = Idle
        /\ todosTable' = out.table
        /\ last' = Op("deleteTodo", input, out.ret)
            /\ UNCHANGED <<nextId, clock, todos, issuedIds, calls, writes>>

\* ---------------------------------------------------------- store failures
\* The errors .execute() rejects with.
StoreErrors == {"connection", "constraint"}

\* What the store does with the next statements it is sent: it rejects as
\* many of them as the sequence is long, each with that error, and runs the
\* ones after.
StoreFailures ==
  UNION {[1..n -> StoreErrors] : n \in 1..MaxFailures}

\* getTodo when the store fails: the statement rejects inside try, the catch
\* block writes the error to the console and throws it again. The answer, the
\* console's lines, and the number of statements sent.
getTodoFailing(table, input, failures) ==
  LET error == Head(failures)
  IN  [ret |-> RetThrow(error), logged |-> <<error>>, executed |-> 1]

GetTodoFails ==
  \E input \in [id : Ids], failures \in StoreFailures :
    LET out == getTodoFailing(todosTable, input, failures)
    IN  /\ last = Idle
        /\ last' = Op("getTodo", input, out.ret)
                      @@ [failures |-> failures, logged |-> out.logged,
                          executed |-> out.executed]
        /\ UNCHANGED <<todosTable, nextId, clock, todos, issuedIds, calls,
                       writes>>

\* updateTodo with a catch block that sends the statement once more.
updateTodoFailing_Retry(table, input, now, failures) ==
  LET error == Head(failures)
      again == updateTodo(table, input, now)
  IN  IF Len(failures) = 1
        THEN [table |-> again.table, ret |-> again.ret,
              logged |-> <<error>>, executed |-> 2]
        ELSE [table |-> table, ret |-> RetThrow(failures[2]),
              logged |-> <<error>>, executed |-> 2]

\* updateTodo when the store fails: the rejected statement changes no row, the
\* catch block writes the error to the console and throws it again.
updateTodoFailing(table, input, now, failures) ==
  LET error == Head(failures)
  IN  [table |-> table, ret |-> RetThrow(error),
       logged |-> <<error>>, executed |-> 1]

UpdateTodoFails ==
  \E input \in UpdateTodoInputs, failures \in StoreFailures :
    LET out == updateTodoFailing(todosTable, input, clock, failures)
    IN  /\ last = Idle
        /\ todosTable' = out.table
        /\ last' = Op("updateTodo", input, out.ret)
                      @@ [failures |-> failures, logged |-> out.logged,
                          executed |-> out.executed]
        /\ UNCHANGED <<nextId, clock, todos, issuedIds, calls, writes>>

\* ------------------------------------------------------------- the client
\* createFormData: {title, description}; the description box turns '' into
\* null (e.target.value || null).
CreateFormData == [title : Titles, description : RowDescriptions]

\* handleCreateTodo without its check of the title.
handleCreateTodo_NoCheck(formData, prev, answer) ==
  [called |-> TRUE,
   todos |-> IF answer.kind = "todo" THEN <<answer.todo>> \o prev ELSE prev]

\* handleCreateTodo on the form `formData` with the local list `prev`, `answer`
\* being what the create procedure answers if it is called: whether it was
\* called, and the local list after.
handleCreateTodo(formData, prev, answer) ==
  IF Trim(formData.title) = EmptyString
    THEN [called |-> FALSE, todos |-> prev]
    ELSE [called |-> TRUE,
          todos |-> IF answer.kind = "todo" THEN <<answer.todo>> \o prev ELSE prev]

\* The handler's answer is recorded as what the procedure answered it, and as
\* void when the handler returned without calling it.
HandleCreateTodo ==
  \E formData \in CreateFormData : \E later \in LaterReadings(clock) :
    LET answer == CreateAnswer(formData, clock, later)
        out == handleCreateTodo(formData, todos, answer)
    IN  /\ last = Idle
        /\ Len(todos) < MaxTodos
        /\ todos' = out.todos
        /\ last' = Op("handleCreateTodo", formData,
                      IF out.called THEN answer ELSE RetVoid)
        /\ issuedIds' = IF out.called /\ answer.kind = "todo"
                          THEN issuedIds \cup {answer.todo.id} ELSE issuedIds
        /\ clock' = IF out.called /\ answer.kind = "todo" THEN later ELSE clock
        /\ UNCHANGED <<todosTable, nextId, calls, writes>>

\* handleCreateTodo when the create procedure throws.
HandleCreateTodoFails ==
  \E formData \in CreateFormData, error \in StoreErrors :
    LET answer == RetThrow(error)
        out == handleCreateTodo(formData, todos, answer)
    IN  /\ last = Idle
        /\ out.called
        /\ todos' = out.todos
        /\ last' = Op("handleCreateTodo", formData, answer)
        /\ UNCHANGED <<todosTable, nextId, clock, issuedIds, calls, writes>>

\* What a procedure of the server meets: a store that runs its statement, or
\* one that rejects it with an error.
RemoteFailures == {<<>>} \cup {<<error>> : error \in StoreErrors}

\* loadTodos: the local list becomes what getTodos answers; when the call
\* throws the error is logged and the list stays.
loadTodos(prev, answer) ==
  IF answer.kind = "list" THEN answer.todos ELSE prev

LoadTodos ==
  \E failures \in RemoteFailures :
    LET answer == IF failures = <<>> THEN getTodos(todosTable)
                  ELSE RetThrow(Head(failures))
    IN  /\ last = Idle
        /\ todos' = loadTodos(todos, answer)
        /\ last' = Op("loadTodos", <<>>, answer)
        /\ UNCHANGED <<todosTable, nextId, clock, issuedIds, calls, writes>>

\* prev.map(t => t.id === id ? updatedTodo : t)
ReplaceById(prev, id, updatedTodo) ==
  [i \in DOMAIN prev |-> IF prev[i].id = id THEN updatedTodo ELSE prev[i]]

\* prev.filter(t => t.id !== id)
RemoveById(prev, id) == SelectSeq(prev, LAMBDA t : t.id # id)

\* The updateTodo procedure as the client meets it: the table after, and the
\* answer or the error thrown.
RemoteUpdate(table, input, now, failures) ==
  IF failures = <<>>
    THEN updateTodo(table, input, now)
    ELSE LET out == updateTodoFailing(table, input, now, failures)
         IN  [table |-> out.table, ret |-> out.ret]

\* The deleteTodo procedure as the client meets it; a rejected statement
\* removes no row.
RemoteDelete(table, input, failures) ==
  IF failures = <<>>
    THEN deleteTodo(table, input)
    ELSE [table |-> table, ret |-> RetThrow(Head(failures))]

\* handleToggleComplete on the item `todo` of the local list `prev`, `answer`
\* being what updateTodo answers: the local list after.
handleToggleComplete(todo, prev, answer) ==
  IF answer.kind = "todo" THEN ReplaceById(prev, todo.id, answer.todo) ELSE prev

HandleToggleComplete ==
  \E todo \in Rows(todos), failures \in RemoteFailures :
    LET input == [id |-> todo.id, completed |-> ~todo.completed]
        out == RemoteUpdate(todosTable, input, clock, failures)
    IN  /\ last = Idle
        /\ todosTable' = out.table
        /\ todos' = handleToggleComplete(todo, todos, out.ret)
        /\ last' = Op("handleToggleComplete", input, out.ret)
        /\ UNCHANGED <<nextId, clock, issuedIds, calls, writes>>

\* editFormData: {title, description}, as openEditDialog fills it and the
\* dialog's boxes change it.
EditFormData == [title : Titles, description : RowDescriptions]

\* editingTodo: an item of the local list, or null.
EditingTodos == {RetNull} \cup {RetTodo(t) : t \in Rows(todos)}

\* handleEditTodo: whether updateTodo was called, and the local list after.
handleEditTodo(editingTodo, editFormData, prev, answer) ==
  IF editingTodo.kind = "null" \/ Trim(editFormData.title) = EmptyString
    THEN [called |-> FALSE, todos |-> prev]
    ELSE [called |-> TRUE,
          todos |-> IF answer.kind = "todo"
                      THEN ReplaceById(prev, editingTodo.todo.id, answer.todo)
                      ELSE prev]

\* The handler's input is recorded as the request it builds, its answer as
\* what updateTodo answered it, and as void when it returned without calling.
HandleEditTodo ==
  \E editingTodo \in EditingTodos, editFormData \in EditFormData,
     failures \in RemoteFailures :
    LET input == IF editingTodo.kind = "null" THEN [id |-> 0]
                 ELSE [id |-> editingTodo.todo.id,
                       title |-> editFormData.title,
                       description |-> editFormData.description]
        remote == RemoteUpdate(todosTable, input, clock, failures)
        out == handleEditTodo(editingTodo, editFormData, todos, remote.ret)
    IN  /\ last = Idle
        /\ ~out.called => failures = <<>>
        /\ todosTable' = IF out.called THEN remote.table ELSE todosTable
        /\ todos' = out.todos
        /\ last' = Op("handleEditTodo", input,
                      IF out.called THEN remote.ret ELSE RetVoid)
        /\ UNCHANGED <<nextId, clock, issuedIds, calls, writes>>

\* handleDeleteTodo removing the item before it knows the answer.
handleDeleteTodo_Optimistic(todoId, prev, answer) == RemoveById(prev, todoId)

\* handleDeleteTodo on the id of an item of the local list `prev`, `answer`
\* being what deleteTodo answers: the local list after.
handleDeleteTodo(todoId, prev, answer) ==
  IF answer.kind = "bool" /\ answer.value THEN RemoveById(prev, todoId) ELSE prev

HandleDeleteTodo ==
  \E todo \in Rows(todos), failures \in RemoteFailures :
    LET input == [id |-> todo.id]
        out == RemoteDelete(todosTable, input, failures)
    IN  /\ last = Idle
        /\ todosTable' = out.table
        /\ todos' = handleDeleteTodo(todo.id, todos, out.ret)
        /\ last' = Op("handleDeleteTodo", input, out.ret)
        /\ UNCHANGED <<nextId, clock, issuedIds, calls, writes>>

Next ==
  \/ Tick
  \/ Respond
  \/ InsertTodo
  \/ CreateTodo
  \/ GetTodo
  \/ GetTodos
  \/ UpdateTodo
  \/ DeleteTodo

\* The service: the operations on the table.
Spec == Init /\ [][Next]_vars

\* The client's create form in front of the create procedure.
ClientNext ==
  \/ Tick
  \/ Respond
  \/ InsertTodo
  \/ CreateTodo
  \/ HandleCreateTodo

ClientSpec == Init /\ [][ClientNext]_vars

\* updateTodo calls side by side, with deletes between their steps.
ConcNext ==
  \/ Tick
  \/ Respond
  \/ InsertTodo
  \/ DeleteTodo
  \/ BeginUpdate
  \/ WriteUpdate

ConcSpec == Init /\ [][ConcNext]_vars

\* getTodo and updateTodo on a store that can fail.
FailureNext ==
  \/ Tick
  \/ Respond
  \/ InsertTodo
  \/ GetTodo
  \/ UpdateTodo
  \/ GetTodoFails
  \/ UpdateTodoFails

FailureSpec == Init /\ [][FailureNext]_vars

\* The client: its handlers in front of the server's procedures, and another
\* client deleting rows.
AppNext ==
  \/ Tick
  \/ Respond
  \/ InsertTodo
  \/ DeleteTodo
  \/ LoadTodos
  \/ HandleCreateTodo
  \/ HandleCreateTodoFails
  \/ HandleToggleComplete
  \/ HandleEditTodo
  \/ HandleDeleteTodo

AppSpec == Init /\ [][AppNext]_vars

\* ----------------------------------------------------------------- claims
\* What the formulas below read off the operation that has just run.
Ran(name) == last # Idle /\ last.op = name
\* The rows the operation addressed, before it and after it.
RowsBefore == WhereId(last.table, last.input.id)
RowsAfter == WhereId(todosTable, last.input.id)

\* C1: getTodo with the id createTodo has just returned, nothing else having
\* run in between, answers a record equal in every field to the one createTodo
\* returned.
C1_CreateThenGetOne ==
  (Ran("getTodo") /\ last.created.kind = "todo"
     /\ last.input.id = last.created.todo.id)
    => last.ret = last.created

\* No two rows of the table share an id.
TableIdsUnique ==
  \A i, j \in DOMAIN todosTable :
    todosTable[i].id = todosTable[j].id => i = j

\* C2: no createTodo call returns an id an earlier createTodo call returned,
\* and no two rows of the table ever share an id.
C2_IdsUnique ==
  /\ [][(last = Idle /\ last' # Idle /\ last'.op = "createTodo"
           /\ last'.ret.kind = "todo")
          => last'.ret.todo.id \notin issuedIds]_vars
  /\ []TableIdsUnique

\* C3: createTodo with a non-empty title answers a record with that title and
\* completed = false; its description is null when the input's description is
\* omitted or null, and the input's description when that is a non-empty string.
C3_CreateDefaults ==
  (Ran("createTodo") /\ Has(last.input, "title") /\ Len(last.input.title) > 0)
    => /\ last.ret.kind = "todo"
       /\ last.ret.todo.title = last.input.title
       /\ last.ret.todo.completed = FALSE
       /\ (~Has(last.input, "description") \/ last.input.description = Null)
            => last.ret.todo.description = Null
       /\ (Has(last.input, "description")
             /\ last.input.description \notin {Null, EmptyString})
            => last.ret.todo.description = last.input.description

\* C3's case: a create without a description has answered a record whose
\* description is null.
C3_Witness ==
  /\ Ran("createTodo")
  /\ Has(last.input, "title") /\ Len(last.input.title) > 0
  /\ ~Has(last.input, "description")
  /\ last.ret.kind = "todo"
  /\ last.ret.todo.description = Null

\* C4: the record createTodo answers has created_at = updated_at.
C4_CreatedEqualsUpdated ==
  (Ran("createTodo") /\ last.ret.kind = "todo")
    => last.ret.todo.created_at = last.ret.todo.updated_at

\* C5: a create with an empty or missing title is rejected and nothing is
\* persisted.  The create procedure answers it with an error and leaves the
\* table as it was; the client's form, when the title is empty or blank, does
\* not call the procedure at all and leaves the table and its list as they were.
C5_EmptyTitleRejected ==
  /\ (Ran("createTodo")
        /\ (~Has(last.input, "title") \/ last.input.title = EmptyString))
       => (last.ret = RetError /\ todosTable = last.table)
  /\ (Ran("handleCreateTodo") /\ Trim(last.input.title) = EmptyString)
       => (last.ret = RetVoid /\ todosTable = last.table /\ todos = last.todos)

\* C5's case: the form was submitted with a blank title while the table held a
\* row, and the table and the list are as before.
C5_Witness ==
  /\ Ran("handleCreateTodo")
  /\ last.input.title = <<" ">>
  /\ Len(todosTable) > 0
  /\ Len(todos) > 0
  /\ last.ret = RetVoid
  /\ todosTable = last.table
  /\ todos = last.todos

\* C6: updateTodo on an existing id leaves each of title, description and
\* completed that the input does not provide as it was, sets each that it
\* provides to the input's value (a description of null included), and answers
\* the row as stored after the update.
C6_UpdateAppliesProvided ==
  (Ran("updateTodo") /\ Len(RowsBefore) > 0)
    => /\ Len(RowsAfter) = 1
       /\ \A f \in {"title", "description", "completed"} :
            RowsAfter[1][f] = IF Has(last.input, f) THEN last.input[f]
                                                    ELSE RowsBefore[1][f]
       /\ last.ret = RetTodo(RowsAfter[1])

\* C6's case: an update that provides only a null description has cleared a
\* description that was a string, and has kept the title and completed.
C6_Witness ==
  /\ Ran("updateTodo")
  /\ DOMAIN last.input = {"id", "description"}
  /\ last.input.description = Null
  /\ Len(RowsBefore) > 0
  /\ RowsBefore[1].description = <<"a">>
  /\ RowsBefore[1].completed = TRUE
  /\ last.ret.kind = "todo"
  /\ last.ret.todo.description = Null
  /\ last.ret.todo.completed = TRUE
  /\ last.ret.todo.title = RowsBefore[1].title

\* C7: after updateTodo on an existing id the row's updated_at is strictly
\* greater than before.
C7_UpdatedAtAdvances ==
  (Ran("updateTodo") /\ Len(RowsBefore) > 0)
    => RowsAfter[1].updated_at > RowsBefore[1].updated_at

\* C8: updateTodo on an id no row has answers null and leaves the table as it
\* was.
C8_UpdateMissing ==
  (Ran("updateTodo") /\ Len(RowsBefore) = 0)
    => (last.ret = RetNull /\ todosTable = last.table)

\* C8's case: an update of an id no row has, with rows in the table and the
\* clock past their updated_at, has answered null.
C8_Witness ==
  /\ Ran("updateTodo")
  /\ Len(RowsBefore) = 0
  /\ Len(last.table) > 1
  /\ \A r \in Rows(last.table) : r.updated_at < clock
  /\ Has(last.input, "title")
  /\ last.ret = RetNull

\* C9: deleteTodo answers true exactly when a row had the id, and false
\* exactly when none had; after it no row has the id, so getTodo answers null
\* and a second deleteTodo of the id would answer false; when it answers false
\* the table is as it was.
C9_DeleteAnswer ==
  Ran("deleteTodo")
    => /\ last.ret = RetBool(Len(RowsBefore) > 0)
       /\ Len(RowsAfter) = 0
       /\ getTodo(todosTable, last.input) = RetNull
       /\ deleteTodo(todosTable, last.input).ret = RetBool(FALSE)
       /\ (last.ret = RetBool(FALSE) => todosTable = last.table)

\* C9's case: a delete of a row's id has answered true.
C9_Witness ==
  /\ Ran("deleteTodo")
  /\ Len(RowsBefore) > 0
  /\ last.ret = RetBool(TRUE)
  /\ Len(RowsAfter) = 0

\* C9's other case: a delete of an id no row has, with rows in the table, has
\* answered false.
C9_WitnessMissing ==
  /\ Ran("deleteTodo")
  /\ Len(RowsBefore) = 0
  /\ Len(last.table) > 0
  /\ last.ret = RetBool(FALSE)

\* C10: deleteTodo removes the row of the id and no other: the rows after it
\* are the rows before it whose id is another, each with every field as it was
\* and in the same order.
C10_DeleteIsPoint ==
  Ran("deleteTodo")
    => /\ Rows(todosTable) = {r \in Rows(last.table) : r.id # last.input.id}
       /\ Len(todosTable) = Len(last.table) - Len(RowsBefore)
       /\ \A i, j \in DOMAIN todosTable :
            i < j => \E k, l \in DOMAIN last.table :
                       k < l /\ last.table[k] = todosTable[i]
                             /\ last.table[l] = todosTable[j]

\* C10's case: one row of several has been deleted and another is still there.
C10_Witness ==
  /\ Ran("deleteTodo")
  /\ Len(last.table) > 1
  /\ Len(RowsBefore) = 1
  /\ Len(todosTable) = Len(last.table) - 1
  /\ \E r \in Rows(todosTable) : r \in Rows(last.table) /\ r.id # last.input.id
\* C11: getTodos answers exactly the rows of the table, each once: as many as
\* the table holds (none when it is empty), every row of the table among them,
\* and no row twice.
C11_GetAllExact ==
  Ran("getTodos")
    => /\ Len(last.ret.todos) = Len(todosTable)
       /\ Rows(last.ret.todos) = Rows(todosTable)
       /\ \A i, j \in DOMAIN last.ret.todos :
            last.ret.todos[i] = last.ret.todos[j] => i = j

\* C11's case: getTodos has answered every row of a table of several rows.
C11_Witness ==
  /\ Ran("getTodos")
  /\ Len(todosTable) > 1
  /\ Len(last.ret.todos) = Len(todosTable)

\* C11's other case: getTodos has answered the empty list on the empty table.
C11_WitnessEmpty ==
  /\ Ran("getTodos")
  /\ todosTable = <<>>
  /\ last.ret.todos = <<>>

\* The place of the row `r` in the table (its insertion order).
Place(r) == CHOOSE i \in DOMAIN todosTable : todosTable[i] = r

\* C12: getTodos answers the rows newest first: of two consecutive rows the
\* first has the later or the same created_at, and when it is the same the
\* first is the one inserted first.
C12_GetAllNewestFirst ==
  Ran("getTodos")
    => \A i \in DOMAIN last.ret.todos : i + 1 \in DOMAIN last.ret.todos =>
         LET a == last.ret.todos[i]
             b == last.ret.todos[i + 1]
         IN  /\ a.created_at >= b.created_at
             /\ a.created_at = b.created_at => Place(a) < Place(b)

\* C12's case: getTodos has put a row inserted later, at a later time, first.
C12_Witness ==
  /\ Ran("getTodos")
  /\ Len(last.ret.todos) > 1
  /\ last.ret.todos[1].created_at > last.ret.todos[2].created_at
  /\ last.ret.todos[1] = todosTable[2]

\* C12's other case: two rows of the same created_at, answered in insertion
\* order.
C12_WitnessTie ==
  /\ Ran("getTodos")
  /\ Len(last.ret.todos) > 1
  /\ last.ret.todos[1].created_at = last.ret.todos[2].created_at
  /\ last.ret.todos[1] = todosTable[1]

\* C13: getTodo answers the row of the table whose id is the requested one
\* when there is one, and null otherwise; getTodo and getTodos leave the table
\* (and the id sequence) as they were.
C13_GetOneAndNoSideEffect ==
  /\ Ran("getTodo")
       => /\ (\E r \in Rows(todosTable) : r.id = last.input.id)
               => (last.ret.kind = "todo" /\ last.ret.todo \in Rows(todosTable)
                     /\ last.ret.todo.id = last.input.id)
          /\ (\A r \in Rows(todosTable) : r.id # last.input.id)
               => last.ret = RetNull
          /\ todosTable = last.table
  /\ Ran("getTodos") => todosTable = last.table

\* C13's case: getTodo has answered the second of several rows.
C13_Witness ==
  /\ Ran("getTodo")
  /\ Len(todosTable) > 1
  /\ last.ret = RetTodo(todosTable[2])

\* C13's other case: getTodo of an id no row has, the table holding rows, has
\* answered null.
C13_WitnessMissing ==
  /\ Ran("getTodo")
  /\ Len(todosTable) > 0
  /\ last.ret = RetNull
\* C14: every row of the table has created_at <= updated_at, in every
\* reachable state, updateTodo calls running side by side with the other
\* operations included.
C14_CreatedBeforeUpdated ==
  \A r \in Rows(todosTable) : r.created_at <= r.updated_at

\* C15: updateTodo on an existing id stores and answers a row with the id and
\* the created_at the row had before, whatever the input provides.
C15_IdAndCreatedAtKept ==
  (Ran("updateTodo") /\ Len(RowsBefore) > 0)
    => /\ Len(RowsAfter) = 1
       /\ RowsAfter[1].id = RowsBefore[1].id
       /\ RowsAfter[1].created_at = RowsBefore[1].created_at
       /\ last.ret.kind = "todo"
       /\ last.ret.todo.id = RowsBefore[1].id
       /\ last.ret.todo.created_at = RowsBefore[1].created_at

\* C15's case: an update that provides every field, run after the row's
\* creation time, has kept the row's id and created_at.
C15_Witness ==
  /\ Ran("updateTodo")
  /\ DOMAIN last.input = {"id", "title", "description", "completed"}
  /\ Len(RowsBefore) > 0
  /\ RowsBefore[1].created_at < clock
  /\ last.ret.kind = "todo"
  /\ last.ret.todo.created_at = RowsBefore[1].created_at
  /\ last.ret.todo.updated_at = clock

\* C16: every row of the table has a non-empty title, in every reachable
\* state.
C16_TitleNonEmpty ==
  \A r \in Rows(todosTable) : r.title # EmptyString
\* The fields a caller can set.
UserFields == {"title", "description", "completed"}

\* The input of the call whose statement ran i-th.
WriteInput(i) == calls[writes[i].call].input

\* The statements, by their place in the order the table ran them, whose call
\* carried field f.
Carrying(f) == {i \in DOMAIN writes : Has(WriteInput(i), f)}

\* The last of them.
LastCarrying(f) == CHOOSE i \in Carrying(f) : \A j \in Carrying(f) : j <= i

\* C17: for updateTodo calls side by side on one id whose statements all found
\* the row, (a) each statement is atomic on the row: its answer is the row it
\* found with the call's own fields set and the others as found; (b) the row
\* ends with, for each user field, the value of the call whose statement ran
\* last among those that carried the field, and the value it had before the
\* first statement if no call carried it.
C17_LastWriteWins ==
  (/\ writes # <<>>
   /\ \A i \in DOMAIN writes : writes[i].ret.kind = "todo"
   /\ WhereId(todosTable, 1) # <<>>)
    => \A f \in UserFields :
         /\ \A i \in DOMAIN writes :
              writes[i].ret.todo[f] =
                IF Has(WriteInput(i), f) THEN WriteInput(i)[f]
                ELSE writes[i].before[1][f]
         /\ WhereId(todosTable, 1)[1][f] =
              IF Carrying(f) = {} THEN writes[1].before[1][f]
              ELSE WriteInput(LastCarrying(f))[f]

\* C17's case: two calls carry different titles, the statement of the call
\* made second runs first, one call alone carries completed, neither carries a
\* description, and both statements found the row.
C17_Witness ==
  /\ Len(writes) = 2
  /\ writes[1].call = 2
  /\ \A i \in DOMAIN writes : writes[i].ret.kind = "todo"
  /\ WhereId(todosTable, 1) # <<>>
  /\ Carrying("title") = {1, 2}
  /\ WriteInput(1).title # WriteInput(2).title
  /\ Carrying("completed") = {1}
  /\ Carrying("description") = {}

\* C19: no statement of an updateTodo call lowers the updated_at of the row it
\* finds.
C19_UpdatedAtNeverDecreases ==
  \A i \in DOMAIN writes :
    writes[i].before # <<>>
      => writes[i].ret.todo.updated_at >= writes[i].before[1].updated_at

\* C20: the statement of an updateTodo call never adds an id to the table, and
\* when the row of its id is gone the call answers null and the row stays
\* absent.
C20_UpdateNeverCreates ==
  [][Len(writes') > Len(writes)
       => LET w == writes'[Len(writes')]
          IN  /\ {r.id : r \in Rows(todosTable')} \subseteq
                   {r.id : r \in Rows(todosTable)}
              /\ w.before = <<>>
                   => /\ w.ret = RetNull
                      /\ WhereId(todosTable', 1) = <<>>]_vars

\* C20's case: an updateTodo call was made when the row was there, deleteTodo
\* has then removed the row, and the call's statement, run after that, was
\* answered null.
C20_Witness ==
  /\ Ran("deleteTodo")
  /\ last.input.id = 1
  /\ last.ret = RetBool(TRUE)
  /\ WhereId(todosTable, 1) = <<>>
  /\ \E i \in DOMAIN writes :
       /\ writes[i].ret = RetNull
       /\ \E r \in Rows(last.table) :
            r.id = 1 /\ r.created_at < calls[writes[i].call].data.updated_at
\* The store failed during the operation that has just run.
StoreFailed == last # Idle /\ Has(last, "failures")

\* C18: when the store fails during getTodo or updateTodo, the call throws the
\* very error the store rejected with, after writing it to the console once;
\* it sends no second statement, answers neither a record nor null, and leaves
\* the table as it was.
C18_FailurePropagated ==
  (StoreFailed /\ (Ran("getTodo") \/ Ran("updateTodo")))
    => /\ last.ret = RetThrow(Head(last.failures))
       /\ last.logged = <<Head(last.failures)>>
       /\ last.executed = 1
       /\ todosTable = last.table

\* C18's case: updateTodo on an existing row met a store that failed one
\* statement and would have run the next.
C18_Witness ==
  /\ StoreFailed
  /\ Ran("updateTodo")
  /\ Len(last.failures) = 1
  /\ Len(RowsBefore) > 0
  /\ last.ret.kind = "throw"

\* C18's other case: getTodo on an existing row met a store that failed with
\* one error and would have failed the next statement with another.
C18_WitnessGet ==
  /\ StoreFailed
  /\ Ran("getTodo")
  /\ Len(last.failures) = 2
  /\ last.failures[1] # last.failures[2]
  /\ Len(RowsBefore) > 0
  /\ last.ret.kind = "throw"
\* The server reported success to the handler that has just run.
ServerSucceeded ==
  \/ Ran("handleCreateTodo") /\ last.ret.kind = "todo"
  \/ (Ran("handleToggleComplete") \/ Ran("handleEditTodo"))
       /\ last.ret.kind = "todo"
  \/ Ran("handleDeleteTodo") /\ last.ret = RetBool(TRUE)
  \/ Ran("loadTodos") /\ last.ret.kind = "list"

\* C21: after a handler of the client, the local list differs from the one
\* before only as the server's answer allows: handleDeleteTodo has removed the
\* items of that id only if deleteTodo answered true; handleToggleComplete and
\* handleEditTodo have put the answered record in place of the items of that
\* id only if updateTodo answered a record; handleCreateTodo has put the
\* answered record in front only if createTodo answered one; and when the call
\* threw, answered false or null, or was not made, the list is as it was.
C21_ListFollowsServer ==
  /\ (Ran("handleCreateTodo") /\ ServerSucceeded)
       => todos = <<last.ret.todo>> \o last.todos
  /\ ((Ran("handleToggleComplete") \/ Ran("handleEditTodo")) /\ ServerSucceeded)
       => /\ Len(todos) = Len(last.todos)
          /\ \A i \in DOMAIN todos :
               todos[i] = IF last.todos[i].id = last.input.id
                            THEN last.ret.todo ELSE last.todos[i]
  /\ (Ran("handleDeleteTodo") /\ ServerSucceeded)
       => todos = SelectSeq(last.todos, LAMBDA t : t.id # last.input.id)
  /\ ((\/ Ran("handleCreateTodo") \/ Ran("handleToggleComplete")
       \/ Ran("handleEditTodo") \/ Ran("handleDeleteTodo") \/ Ran("loadTodos"))
      /\ ~ServerSucceeded)
       => todos = last.todos

\* C21's case: handleDeleteTodo on an item whose row another client had
\* deleted was answered false, and the item is still in the local list.
C21_Witness ==
  /\ Ran("handleDeleteTodo")
  /\ last.ret = RetBool(FALSE)
  /\ \E t \in Rows(todos) : t.id = last.input.id

\* handleDeleteTodo was answered true and the item is gone from the list,
\* another item staying.
C21_WitnessDeleted ==
  /\ Ran("handleDeleteTodo")
  /\ last.ret = RetBool(TRUE)
  /\ Len(last.todos) = 2
  /\ Len(todos) = 1

\* updateTodo threw to handleToggleComplete on an item whose row exists.
C21_WitnessToggleThrows ==
  /\ Ran("handleToggleComplete")
  /\ last.ret.kind = "throw"
  /\ Len(RowsBefore) > 0
  /\ todos # <<>>

\* handleToggleComplete was answered a record, now in the list in place of the
\* item.
C21_WitnessToggled ==
  /\ Ran("handleToggleComplete")
  /\ last.ret.kind = "todo"
  /\ todos # last.todos
  /\ last.ret.todo \in Rows(todos)

\* handleEditTodo was answered null, the row being gone.
C21_WitnessEditNull ==
  /\ Ran("handleEditTodo")
  /\ last.ret = RetNull
  /\ \E t \in Rows(todos) : t.id = last.input.id

\* handleEditTodo was answered a record with the new title.
C21_WitnessEdited ==
  /\ Ran("handleEditTodo")
  /\ last.ret.kind = "todo"
  /\ todos # last.todos

\* createTodo threw to handleCreateTodo.
C21_WitnessCreateThrows ==
  /\ Ran("handleCreateTodo")
  /\ last.ret.kind = "throw"
  /\ todos # <<>>
====
